---- MODULE Spec2Model ----
(***************************************************************************)
(* A model of src/Agents.py: the double-DQN agent `Ship` and its network   *)
(* `ShipNet`.  The process is single-threaded: every method call is one    *)
(* atomic step.  It constructs one agent, or two that share a checkpoint   *)
(* directory (live), and then calls act, cache, recall, learn, save and    *)
(* load on them in any order.                                              *)
(*                                                                         *)
(* Numbers.  Exploration rates are fixed-point numbers with denominator    *)
(* Scale (Scale stands for 1.0).  Parameters, rewards and action values    *)
(* are small finite integers.  Each network holds one scalar parameter;    *)
(* the convolutional stack is replaced by the affine read-out Forward,     *)
(* and Adam by a sign step driven by one moment estimate.  The replay      *)
(* buffer's maxlen (1000 in the source) is scaled down to maxlen.          *)
(* Cadences (sync_every, learn_every) and batch_size are positive: with a  *)
(* zero cadence learn() raises ZeroDivisionError on every call.            *)
(*                                                                         *)
(* Python's None is the empty tuple, an optional value v is <<v>>.         *)
(*                                                                         *)
(* Specifications.  Spec: one agent, the learning schedule varies.         *)
(* SpecEps: one agent, the exploration rate, decay and floor vary.         *)
(* SpecTd: one agent, the discount factor and initial parameters vary.     *)
(* SpecPair: two agents constructed with different arguments.              *)
(* SpecDim: two agents, the input shape of the first varies.               *)
(* SpecSync: one agent, the sync cadence and the burn-in vary.             *)
(***************************************************************************)
EXTENDS Integers, Sequences, FiniteSets, TLC

VARIABLES ship,    \* ship[a]: the fields of agent a (a Ship instance and its ShipNet)
          disk,    \* disk[p]: <<>> or <<checkpoint>>, the file at path p
          ret,     \* what the last call did: its return value, exception, trace
          pushed,  \* pushed[a]: every transition a's buffer received, oldest first
          calls,   \* number of calls made so far
          live,    \* the agents the process has constructed and calls methods on
          ctor     \* ctor[a]: the state_dim Ship(...) was called with for a, and what it raised

vars == <<ship, disk, ret, pushed, calls, live, ctor>>

----------------------------------------------------------------------------
(* Bounds *)

Scale == 4          \* fixed-point denominator of the exploration rate
maxlen == 2         \* replay buffer capacity (deque(maxlen=1000), scaled down)
MaxStep == 2        \* cap on curr_step: act() is not called beyond it
MaxCalls == 5       \* cap on the number of calls in a run
MaxParam == 2       \* parameters saturate at -MaxParam and MaxParam

Agents == {"A", "B"}
None == <<>>
Some(v) == <<v>>

States == {0, 1}             \* observations
Actions == {0, 1}
action_dim == Cardinality(Actions)
Params == (-MaxParam) .. MaxParam

(* The transitions the environment hands to cache(). *)
Transitions ==
  { [state |-> 0, next_state |-> 1, action |-> 0, reward |-> 1, done |-> FALSE],
    [state |-> 1, next_state |-> 0, action |-> 1, reward |-> 2, done |-> TRUE] }

----------------------------------------------------------------------------
(* Arithmetic helpers *)

Max(a, b) == IF a >= b THEN a ELSE b
Min(a, b) == IF a <= b THEN a ELSE b
Abs(x) == IF x < 0 THEN -x ELSE x
Sgn(x) == IF x > 0 THEN 1 ELSE IF x < 0 THEN -1 ELSE 0
Clamp(x, lo, hi) == Max(lo, Min(hi, x))

(* Product of two fixed-point numbers, rounded to nearest. *)
FMul(a, b) == (2 * a * b + Scale) \div (2 * Scale)

RECURSIVE SumSeq(_)
SumSeq(s) == IF s = <<>> THEN 0 ELSE Head(s) + SumSeq(Tail(s))

(* Index of the first maximal entry of a non-empty sequence, 0-based. *)
ArgMax(v) ==
  (CHOOSE i \in 1 .. Len(v) :
      /\ \A j \in 1 .. Len(v) : v[j] <= v[i]
      /\ \A j \in 1 .. (i - 1) : v[j] < v[i]) - 1

----------------------------------------------------------------------------
(* ShipNet *)

(* ShipNet.forward on one input: the action values of a network with       *)
(* parameter p.  Weight(s, a) is the derivative of the value in p.         *)
Weight(s, a) == IF a = s THEN 1 ELSE -1
Forward(p, s) == [i \in 1 .. action_dim |-> p * Weight(s, i - 1) + (i - 1)]

(* Faulty variant: only the height of the input is checked. *)
ShipNet_raises_height_only(input_dim) ==
  IF input_dim[2] # 84 THEN "ValueError" ELSE ""

(* ShipNet.__init__, lines 15-20: c, h, w = input_dim; what the shape      *)
(* check raises, "" when it passes.                                        *)
ShipNet_raises(input_dim) ==
  IF input_dim[2] # 84 THEN "ValueError"
  ELSE IF input_dim[3] # 84 THEN "ValueError"
  ELSE ""

(* Faulty variant: the target parameters are not frozen. *)
ShipNet_unfrozen(p) == [online |-> p, target |-> p, target_requires_grad |-> TRUE]

(* ShipNet.__init__: target is a deep copy of online, requires_grad off.  *)
ShipNet(p) == [online |-> p, target |-> p, target_requires_grad |-> FALSE]

----------------------------------------------------------------------------
(* Ship.__init__ *)

(* torch.optim.Adam(self.net.parameters(), lr): a fresh optimizer, its     *)
(* moment estimate zero.  It holds the parameter tensors of the agent's    *)
(* own net, which load_state_dict later overwrites in place.               *)
Adam(lr) == [lr |-> lr, exp_avg |-> 0]

NewShip(h) ==
  [ state_dim              |-> h.state_dim,
    save_dir               |-> h.save_dir,
    lr                     |-> h.lr,
    net                    |-> ShipNet(h.init_param),
    exploration_rate       |-> h.exploration_rate,
    exploration_rate_decay |-> h.exploration_rate_decay,
    exploration_rate_min   |-> h.exploration_rate_min,
    curr_step              |-> 0,
    save_every             |-> h.save_every,
    memory                 |-> <<>>,
    batch_size             |-> h.batch_size,
    Q                      |-> None,
    loss                   |-> Some(0),
    gamma                  |-> h.gamma,
    optimizer              |-> Adam(h.lr),
    burn_in                |-> h.burn_in,
    learn_every            |-> h.learn_every,
    sync_every             |-> h.sync_every ]

NoRet ==
  [ op |-> "init", agent |-> "", exc |-> "", branch |-> "",
    action |-> None, action_values |-> <<>>,
    Q |-> None, loss |-> None,
    synced |-> FALSE, sampled |-> <<>>, batch |-> <<>>,
    td_est |-> <<>>, td_tgt |-> <<>>, stepped |-> FALSE,
    path |-> None, overwrote |-> FALSE ]

----------------------------------------------------------------------------
(* Ship.act *)

Placeholder == <<1, 1, 1, 1, 1, 1>>

(* Faulty variant: the floor is applied as a ceiling, min() where max() belongs. *)
decayed_rate_min_for_max(s) ==
  Min(s.exploration_rate_min, FMul(s.exploration_rate, s.exploration_rate_decay))

(* Lines 121-122: the decayed exploration rate, clamped at the floor. *)
decayed_rate(s) ==
  Max(s.exploration_rate_min, FMul(s.exploration_rate, s.exploration_rate_decay))

(* Faulty variant: the step counter is not advanced. *)
act_without_step(s) == [s EXCEPT !.exploration_rate = decayed_rate(s)]

(* The agent after act(): the same update in both branches. *)
act(s) ==
  [s EXCEPT !.exploration_rate = decayed_rate(s),
            !.curr_step = s.curr_step + 1]

(* u is the draw of np.random.rand(), r the draw of np.random.randint. *)
Act(a) ==
  /\ calls < MaxCalls
  /\ ship[a].curr_step < MaxStep
  /\ \E state \in States, u \in 0 .. (Scale - 1), r \in Actions :
       LET s == ship[a]
           explore == u < s.exploration_rate
           values == IF explore THEN Placeholder ELSE Forward(s.net.online, state)
           action == IF explore THEN r ELSE ArgMax(values)
       IN  /\ ship' = [ship EXCEPT ![a] = act(s)]
           /\ ret' = [NoRet EXCEPT !.op = "act", !.agent = a,
                                   !.branch = IF explore THEN "explore" ELSE "exploit",
                                   !.action = Some(action),
                                   !.action_values = values]
  /\ calls' = calls + 1
  /\ UNCHANGED <<disk, pushed, live, ctor>>

----------------------------------------------------------------------------
(* Ship.cache *)

(* Faulty variant: a full deque drops its newest element instead of its oldest. *)
deque_append_drops_newest(q, x) ==
  IF Len(q) >= maxlen THEN Append(SubSeq(q, 1, Len(q) - 1), x) ELSE Append(q, x)

(* deque.append on a deque with a maxlen: a full deque drops its oldest.   *)
deque_append(q, x) ==
  IF Len(q) >= maxlen THEN Append(Tail(q), x) ELSE Append(q, x)

(* Faulty variant: caching a transition also advances the step counter. *)
cache_counts_step(s, t) ==
  [s EXCEPT !.memory = deque_append(s.memory, t), !.curr_step = s.curr_step + 1]

(* Line 155: self.memory.append(...) *)
cache(s, t) == [s EXCEPT !.memory = deque_append(s.memory, t)]

Cache(a) ==
  /\ calls < MaxCalls
  /\ \E t \in Transitions :
       /\ ship' = [ship EXCEPT ![a] = cache(ship[a], t)]
       /\ pushed' = [pushed EXCEPT ![a] = Append(pushed[a], t)]
  /\ ret' = [NoRet EXCEPT !.op = "cache", !.agent = a]
  /\ calls' = calls + 1
  /\ UNCHANGED <<disk, live, ctor>>

----------------------------------------------------------------------------
(* Ship.recall *)

(* Faulty variant: positions drawn with replacement, as random.choices does. *)
random_sample_with_replacement(n, k) ==
  IF k > n THEN {} ELSE [1 .. k -> 1 .. n]

(* random.sample(population, k): the possible draws, as sequences of k    *)
(* distinct positions of the population; none when k exceeds its size     *)
(* (random.sample raises ValueError).                                      *)
random_sample(n, k) ==
  IF k > n THEN {}
  ELSE { idx \in [1 .. k -> 1 .. n] :
           \A i, j \in 1 .. k : i # j => idx[i] # idx[j] }

(* The batch at the drawn positions. *)
recall(s, idx) == [i \in 1 .. Len(idx) |-> s.memory[idx[i]]]

Recall(a) ==
  /\ calls < MaxCalls
  /\ LET s == ship[a]
         draws == random_sample(Len(s.memory), s.batch_size)
     IN  \/ /\ draws = {}
            /\ ret' = [NoRet EXCEPT !.op = "recall", !.agent = a,
                                    !.exc = "ValueError"]
         \/ \E idx \in draws :
              ret' = [NoRet EXCEPT !.op = "recall", !.agent = a,
                                   !.sampled = idx, !.batch = recall(s, idx)]
  /\ calls' = calls + 1
  /\ UNCHANGED <<ship, disk, pushed, live, ctor>>

----------------------------------------------------------------------------
(* Ship.td_estimate, Ship.td_target, Ship.update_Q_online, Ship.sync_Q_target *)

(* Q_online(s, a) of every transition of the batch. *)
td_estimate(s, batch) ==
  [i \in 1 .. Len(batch) |->
     Forward(s.net.online, batch[i].state)[batch[i].action + 1]]

(* done.float() *)
Float(done) == IF done THEN 1 ELSE 0

(* Faulty variant: the done mask is left out of the bootstrapped term. *)
td_target_unmasked(s, batch) ==
  [i \in 1 .. Len(batch) |->
     LET next_state_Q == Forward(s.net.online, batch[i].next_state)
         best_action == ArgMax(next_state_Q)
         next_Q == Forward(s.net.target, batch[i].next_state)[best_action + 1]
     IN  batch[i].reward + s.gamma * next_Q]

(* reward + (1 - done) * gamma * Q_target(s', argmax_a Q_online(s', a)) *)
td_target(s, batch) ==
  [i \in 1 .. Len(batch) |->
     LET next_state_Q == Forward(s.net.online, batch[i].next_state)
         best_action == ArgMax(next_state_Q)
         next_Q == Forward(s.net.target, batch[i].next_state)[best_action + 1]
     IN  batch[i].reward + (1 - Float(batch[i].done)) * s.gamma * next_Q]

(* torch.nn.SmoothL1Loss, mean reduction, in units of 1/2: an error d      *)
(* costs d*d/2 below 1 and |d| - 1/2 from 1 on.                            *)
SmoothL1Loss(est, tgt) ==
  SumSeq([i \in 1 .. Len(est) |->
            IF est[i] = tgt[i] THEN 0 ELSE 2 * Abs(est[i] - tgt[i]) - 1])
    \div Len(est)

(* loss.backward(): the derivative of the loss in the online parameter     *)
(* (times the batch size).  td_target is computed under no_grad.           *)
backward(est, tgt, batch) ==
  SumSeq([i \in 1 .. Len(est) |->
            Clamp(est[i] - tgt[i], -1, 1) * Weight(batch[i].state, batch[i].action)])

(* Faulty variant: the optimizer steps twice on the same gradient. *)
optimizer_step_twice(s, grad) ==
  LET m1 == Sgn(s.optimizer.exp_avg + grad)
      p1 == Clamp(s.net.online - s.optimizer.lr * m1, -MaxParam, MaxParam)
      m2 == Sgn(m1 + grad)
      p2 == Clamp(p1 - s.optimizer.lr * m2, -MaxParam, MaxParam)
  IN  [s EXCEPT !.optimizer.exp_avg = m2, !.net.online = p2]

(* optimizer.step(): the moment estimate absorbs the gradient, and every   *)
(* parameter that has a gradient moves against the moment by lr.  The      *)
(* target parameters were built with requires_grad off and are skipped.    *)
optimizer_step(s, grad) ==
  LET m == Sgn(s.optimizer.exp_avg + grad)
      moved(p) == Clamp(p - s.optimizer.lr * m, -MaxParam, MaxParam)
  IN  [s EXCEPT !.optimizer.exp_avg = m,
                !.net.online = moved(s.net.online),
                !.net.target = IF s.net.target_requires_grad
                                 THEN moved(s.net.target) ELSE s.net.target]

update_Q_online(s, est, tgt, batch) ==
  [ship |-> optimizer_step(s, backward(est, tgt, batch)),
   loss |-> SmoothL1Loss(est, tgt)]

(* Faulty variant: the copy runs the wrong way, online is overwritten by target. *)
sync_Q_target_reversed(s) == [s EXCEPT !.net.online = s.net.target]

(* self.net.target.load_state_dict(self.net.online.state_dict()) *)
sync_Q_target(s) == [s EXCEPT !.net.target = s.net.online]

----------------------------------------------------------------------------
(* Ship.learn *)

(* Faulty variant: the sync check is made after the two early returns. *)
sync_due_after_gates(s) ==
  /\ s.curr_step % s.sync_every = 0
  /\ ~(s.curr_step < s.burn_in \/ s.curr_step % s.learn_every # 0)

(* Line 193 *)
sync_due(s) == s.curr_step % s.sync_every = 0

(* Faulty variant: the cadence check is left out. *)
learn_skips_burn_in_only(s) == s.curr_step < s.burn_in

(* Faulty variant: a third early return, taken when the buffer is short. *)
learn_skips_short_buffer(s) ==
  \/ s.curr_step < s.burn_in
  \/ s.curr_step % s.learn_every # 0
  \/ Len(s.memory) < s.batch_size

(* Lines 196-200: the two early returns. *)
learn_skips(s) ==
  \/ s.curr_step < s.burn_in
  \/ s.curr_step % s.learn_every # 0

(* td_est.mean().item(), rounded down. *)
Mean(v) == SumSeq(v) \div Len(v)

(* Lines 202-215, for the draw idx of random.sample. *)
learn_on(s, idx) ==
  LET batch == recall(s, idx)
      td_est == td_estimate(s, batch)
      td_tgt == td_target(s, batch)
      upd == update_Q_online(s, td_est, td_tgt, batch)
  IN  [ship |-> [upd.ship EXCEPT !.loss = Some(upd.loss),
                                 !.Q = Some(Mean(td_est))],
       batch |-> batch, td_est |-> td_est, td_tgt |-> td_tgt]

Learn(a) ==
  /\ calls < MaxCalls
  /\ LET s0 == ship[a]
         s == IF sync_due(s0) THEN sync_Q_target(s0) ELSE s0
         r0 == [NoRet EXCEPT !.op = "learn", !.agent = a, !.synced = sync_due(s0)]
     IN  \/ /\ learn_skips(s)
            /\ ship' = [ship EXCEPT ![a] = s]
            /\ ret' = r0
         \/ /\ ~learn_skips(s)
            /\ random_sample(Len(s.memory), s.batch_size) = {}
            /\ ship' = [ship EXCEPT ![a] = s]
            /\ ret' = [r0 EXCEPT !.exc = "ValueError"]
         \/ /\ ~learn_skips(s)
            /\ \E idx \in random_sample(Len(s.memory), s.batch_size) :
                 LET o == learn_on(s, idx)
                 IN  /\ ship' = [ship EXCEPT ![a] = o.ship]
                     /\ ret' = [r0 EXCEPT !.sampled = idx, !.batch = o.batch,
                                          !.td_est = o.td_est, !.td_tgt = o.td_tgt,
                                          !.stepped = TRUE,
                                          !.Q = o.ship.Q, !.loss = o.ship.loss]
  /\ calls' = calls + 1
  /\ UNCHANGED <<disk, pushed, live, ctor>>

----------------------------------------------------------------------------
(* Ship.save, Ship.load *)

(* Faulty variant: the file name does not include the step counter. *)
save_path_without_step(s) == <<s.save_dir, 0>>

(* save_dir / f"space-invaders_net_{curr_step}.chkpt" *)
save_path(s) == <<s.save_dir, s.curr_step>>

(* The dict that torch.save pickles. *)
checkpoint(s) ==
  [ net                    |-> [online |-> s.net.online, target |-> s.net.target],
    exploration_rate       |-> s.exploration_rate,
    exploration_rate_decay |-> s.exploration_rate_decay,
    exploration_rate_min   |-> s.exploration_rate_min,
    save_every             |-> s.save_every,
    batch_size             |-> s.batch_size,
    gamma                  |-> s.gamma,
    lr                     |-> s.lr,
    burn_in                |-> s.burn_in,
    learn_every            |-> s.learn_every,
    sync_every             |-> s.sync_every,
    curr_step              |-> s.curr_step,
    memory                 |-> s.memory ]

Save(a) ==
  /\ calls < MaxCalls
  /\ disk' = [disk EXCEPT ![save_path(ship[a])] = Some(checkpoint(ship[a]))]
  /\ ret' = [NoRet EXCEPT !.op = "save", !.agent = a,
                          !.path = Some(save_path(ship[a])),
                          !.overwrote = (disk[save_path(ship[a])] # None)]
  /\ calls' = calls + 1
  /\ UNCHANGED <<ship, pushed, live, ctor>>

(* Faulty variant: the optimizer is rebuilt with the agent's own learning rate. *)
load_stale_lr(s, c) ==
  [s EXCEPT !.net.online = c.net.online,
            !.net.target = c.net.target,
            !.exploration_rate = c.exploration_rate,
            !.exploration_rate_decay = c.exploration_rate_decay,
            !.exploration_rate_min = c.exploration_rate_min,
            !.save_every = c.save_every,
            !.batch_size = c.batch_size,
            !.gamma = c.gamma,
            !.optimizer = Adam(s.lr),
            !.burn_in = c.burn_in,
            !.learn_every = c.learn_every,
            !.sync_every = c.sync_every,
            !.curr_step = c.curr_step,
            !.memory = c.memory]

(* Lines 256-268.  self.lr is not assigned. *)
load(s, c) ==
  [s EXCEPT !.net.online = c.net.online,
            !.net.target = c.net.target,
            !.exploration_rate = c.exploration_rate,
            !.exploration_rate_decay = c.exploration_rate_decay,
            !.exploration_rate_min = c.exploration_rate_min,
            !.save_every = c.save_every,
            !.batch_size = c.batch_size,
            !.gamma = c.gamma,
            !.optimizer = Adam(c.lr),
            !.burn_in = c.burn_in,
            !.learn_every = c.learn_every,
            !.sync_every = c.sync_every,
            !.curr_step = c.curr_step,
            !.memory = c.memory]

Load(a, p) ==
  /\ calls < MaxCalls
  /\ \/ /\ disk[p] = None
        /\ ret' = [NoRet EXCEPT !.op = "load", !.agent = a, !.path = Some(p),
                                !.exc = "FileNotFoundError"]
        /\ UNCHANGED <<ship, pushed, live, ctor>>
     \/ /\ disk[p] # None
        /\ ship' = [ship EXCEPT ![a] = load(ship[a], disk[p][1])]
        /\ pushed' = [pushed EXCEPT ![a] = disk[p][1].memory]
        /\ ret' = [NoRet EXCEPT !.op = "load", !.agent = a, !.path = Some(p)]
  /\ calls' = calls + 1
  /\ UNCHANGED <<disk, live, ctor>>

----------------------------------------------------------------------------
(* Construction and the specifications *)

SaveDirs == {"checkpoints"}
Paths == SaveDirs \X (0 .. MaxStep)

(* The arguments agent B is always constructed with. *)
HyperB ==
  [ state_dim |-> <<4, 84, 84>>, save_dir |-> "checkpoints", lr |-> 2, init_param |-> 1,
    exploration_rate |-> Scale, exploration_rate_decay |-> Scale,
    exploration_rate_min |-> 0, save_every |-> 1, batch_size |-> 1,
    gamma |-> 2, burn_in |-> 2, learn_every |-> 1, sync_every |-> 1 ]

(* The arguments agent A is constructed with: the learning schedule varies. *)
HypersA ==
  { [ state_dim |-> <<4, 84, 84>>, save_dir |-> "checkpoints", lr |-> 1, init_param |-> 0,
      exploration_rate |-> 2, exploration_rate_decay |-> 2,
      exploration_rate_min |-> 1, save_every |-> 2, batch_size |-> bs,
      gamma |-> 1, burn_in |-> bi, learn_every |-> le, sync_every |-> se ] :
      bs \in {1, 2}, bi \in {0, 1}, le \in {1, 2}, se \in {2} }

(* Ship(...) is called once for A and once for B.  A call whose ShipNet    *)
(* raises propagates the exception out of Ship.__init__ (line 70): no      *)
(* object is bound, so the agent has no fields and no method is called.    *)
InitWith(L, HA, HB) ==
  /\ \E ha \in HA, hb \in HB :
       LET args == [a \in Agents |-> IF a = "A" THEN ha ELSE hb]
           built == {a \in Agents : ShipNet_raises(args[a].state_dim) = ""}
       IN  /\ ship = [a \in built |-> NewShip(args[a])]
           /\ live = L \cap built
           /\ ctor = [a \in Agents |->
                        [ state_dim |-> args[a].state_dim,
                          exc |-> ShipNet_raises(args[a].state_dim) ]]
  /\ disk = [p \in Paths |-> None]
  /\ ret = NoRet
  /\ pushed = [a \in Agents |-> <<>>]
  /\ calls = 0

Init == InitWith({"A"}, HypersA, {HyperB})

Next ==
  \/ \E a \in live : Act(a)
  \/ \E a \in live : Cache(a)
  \/ \E a \in live : Recall(a)
  \/ \E a \in live : Learn(a)
  \/ \E a \in live : Save(a)
  \/ \E a \in live, p \in Paths : Load(a, p)

Spec == Init /\ [][Next]_vars

(* One agent; the discount factor and the initial parameters vary. *)
HypersTd ==
  { [ state_dim |-> <<4, 84, 84>>, save_dir |-> "checkpoints", lr |-> 1, init_param |-> p,
      exploration_rate |-> 2, exploration_rate_decay |-> 2,
      exploration_rate_min |-> 1, save_every |-> 2, batch_size |-> bs,
      gamma |-> g, burn_in |-> 0, learn_every |-> 1, sync_every |-> 2 ] :
      p \in {-1, 1}, g \in {1, 3}, bs \in {2} }

(* Two agents constructed with different arguments. *)
HypersPair ==
  { h \in HypersA : h.batch_size = 1 /\ h.burn_in = 0 /\ h.learn_every = 1 }

InitPair == InitWith(Agents, HypersPair, {HyperB})
SpecPair == InitPair /\ [][Next]_vars

InitTd == InitWith({"A"}, HypersTd, {HyperB})
SpecTd == InitTd /\ [][Next]_vars

(* Two agents; the input shape agent A is constructed with varies. *)
HypersDim ==
  { [h EXCEPT !.state_dim = <<4, height, width>>] :
      h \in HypersPair, height \in {83, 84}, width \in {83, 84} }

InitDim == InitWith(Agents, HypersDim, {HyperB})
SpecDim == InitDim /\ [][Next]_vars

(* One agent; the sync cadence and the burn-in vary, learning happens on  *)
(* every second step.                                                      *)
HypersSync ==
  { [ state_dim |-> <<4, 84, 84>>, save_dir |-> "checkpoints", lr |-> 1,
      init_param |-> 0,
      exploration_rate |-> 2, exploration_rate_decay |-> 2,
      exploration_rate_min |-> 1, save_every |-> 2, batch_size |-> 1,
      gamma |-> 1, burn_in |-> bi, learn_every |-> 2, sync_every |-> se ] :
      bi \in {0, 1}, se \in {1, 2} }

InitSync == InitWith({"A"}, HypersSync, {HyperB})
SpecSync == InitSync /\ [][Next]_vars

(* One agent; the exploration rate, its decay and its floor vary. *)
HypersEps ==
  { [ state_dim |-> <<4, 84, 84>>, save_dir |-> "checkpoints", lr |-> 1, init_param |-> 0,
      exploration_rate |-> e, exploration_rate_decay |-> d,
      exploration_rate_min |-> f, save_every |-> 2, batch_size |-> 1,
      gamma |-> 1, burn_in |-> 0, learn_every |-> 1, sync_every |-> 2 ] :
      e \in {1, Scale}, d \in {2, Scale + 1}, f \in {0, 2} }

InitEps == InitWith({"A"}, HypersEps, {HyperB})
SpecEps == InitEps /\ [][Next]_vars

----------------------------------------------------------------------------
(* Reading a step: the call that made it, and its agent before and after. *)

Called(op, a) == ret'.op = op /\ ret'.agent = a
Returned(op, a) == ret.op = op /\ ret.agent = a

(* The last n elements of s. *)
LastN(s, n) == SubSeq(s, Max(1, Len(s) - n + 1), Len(s))

----------------------------------------------------------------------------
(* C1: a learn() call made with curr_step < burn_in, or with               *)
(* curr_step >= burn_in and curr_step mod learn_every # 0, returns         *)
(* (None, None), draws no sample from the replay buffer and applies no     *)
(* optimizer step: online parameters and optimizer state stay as they are. *)
C1_GatedLearnIsNoOp ==
  [][\A a \in Agents :
       ( /\ Called("learn", a)
         /\ \/ ship[a].curr_step < ship[a].burn_in
            \/ /\ ship[a].curr_step >= ship[a].burn_in
               /\ ship[a].curr_step % ship[a].learn_every # 0 )
       => /\ ret'.exc = "" /\ ret'.Q = None /\ ret'.loss = None
          /\ ret'.sampled = <<>> /\ ret'.batch = <<>>
          /\ ~ret'.stepped
          /\ ship'[a].net.online = ship[a].net.online
          /\ ship'[a].optimizer = ship[a].optimizer
          /\ ship'[a].Q = ship[a].Q /\ ship'[a].loss = ship[a].loss]_vars

(* A learn() call stopped by the cadence check alone: past burn-in, off   *)
(* the cadence, with a batch available in the buffer.                      *)
C1_Witness ==
  \E a \in Agents :
    /\ Returned("learn", a) /\ ret.Q = None /\ ret.exc = ""
    /\ ship[a].curr_step >= ship[a].burn_in
    /\ ship[a].curr_step % ship[a].learn_every # 0
    /\ Len(ship[a].memory) >= ship[a].batch_size

----------------------------------------------------------------------------
(* C2 as stated: after a learn() call made while curr_step is a multiple   *)
(* of sync_every returns, the target parameters equal the online           *)
(* parameters, in every branch of learn(), the one that applies a          *)
(* gradient step included.                                                 *)
C2_Original ==
  \A a \in Agents :
    ( /\ Returned("learn", a) /\ ret.exc = ""
      /\ ship[a].curr_step % ship[a].sync_every = 0 )
    => ship[a].net.target = ship[a].net.online

(* C2 amended: a learn() call made while curr_step is a multiple of        *)
(* sync_every leaves the target parameters equal to the online parameters  *)
(* as they were when the call began; they equal the online parameters      *)
(* after the call in the branches that apply no gradient step.             *)
C2_SyncCopiesOnlineBeforeStep ==
  [][\A a \in Agents :
       ( /\ Called("learn", a)
         /\ ship[a].curr_step % ship[a].sync_every = 0 )
       => /\ ship'[a].net.target = ship[a].net.online
          /\ ~ret'.stepped => ship'[a].net.target = ship'[a].net.online]_vars

(* A learn() call on a sync step whose gradient step moved the online      *)
(* parameters away from the freshly copied target.                         *)
C2_Witness ==
  \E a \in Agents :
    /\ Returned("learn", a) /\ ret.stepped
    /\ ship[a].curr_step % ship[a].sync_every = 0
    /\ ship[a].net.target # ship[a].net.online

----------------------------------------------------------------------------
(* C3 as stated: for every rate, floor and decay an agent can be           *)
(* constructed with, one act() call sets exploration_rate to               *)
(* max(exploration_rate_min, e * exploration_rate_decay), and over act()   *)
(* calls the rate never rises and never drops below the floor.             *)
C3_Original ==
  [][\A a \in Agents :
       Called("act", a)
       => /\ ship'[a].exploration_rate =
               Max(ship[a].exploration_rate_min,
                   FMul(ship[a].exploration_rate, ship[a].exploration_rate_decay))
          /\ ship'[a].exploration_rate <= ship[a].exploration_rate
          /\ ship'[a].exploration_rate >= ship[a].exploration_rate_min]_vars

(* C3 amended: one act() call sets exploration_rate to                     *)
(* max(exploration_rate_min, e * exploration_rate_decay) in both branches  *)
(* and never leaves it below the floor; the rate does not rise when        *)
(* 0 <= exploration_rate_decay <= 1 and e >= max(0, exploration_rate_min). *)
C3_DecayClampedAtFloor ==
  [][\A a \in Agents :
       Called("act", a)
       => /\ ret'.branch \in {"explore", "exploit"}
          /\ ship'[a].exploration_rate =
               Max(ship[a].exploration_rate_min,
                   FMul(ship[a].exploration_rate, ship[a].exploration_rate_decay))
          /\ ship'[a].exploration_rate >= ship[a].exploration_rate_min
          /\ ( /\ ship[a].exploration_rate_decay \in 0 .. Scale
               /\ ship[a].exploration_rate >= Max(0, ship[a].exploration_rate_min) )
             => ship'[a].exploration_rate <= ship[a].exploration_rate]_vars

(* An exploit-branch act() call that lowered a rate above its floor. *)
C3_Witness ==
  \E a \in Agents :
    /\ Returned("act", a) /\ ret.branch = "exploit"
    /\ ship[a].curr_step >= 2
    /\ ship[a].exploration_rate_decay < Scale
    /\ ship[a].exploration_rate > ship[a].exploration_rate_min
    /\ ship[a].exploration_rate < Scale

----------------------------------------------------------------------------
(* C4: in every reachable state the replay buffer holds at most maxlen     *)
(* transitions, and they are the most recent maxlen of the transitions     *)
(* the buffer received, in insertion order: the oldest are evicted first.  *)
C4_RingBuffer ==
  \A a \in Agents :
    /\ Len(ship[a].memory) <= maxlen
    /\ ship[a].memory = LastN(pushed[a], maxlen)

(* The buffer has received more than maxlen transitions, not all alike. *)
C4_Witness ==
  \E a \in Agents :
    /\ Len(pushed[a]) > maxlen
    /\ pushed[a][1] # pushed[a][Len(pushed[a])]
    /\ Len(ship[a].memory) = maxlen

(* C5: recall() on a buffer holding fewer than batch_size transitions      *)
(* fails with ValueError (insufficient data); on a buffer holding at least *)
(* batch_size it returns batch_size transitions read at pairwise distinct  *)
(* buffer positions.  Either way the buffer is unchanged.                  *)
C5_RecallSamplesDistinct ==
  [][\A a \in Agents :
       Called("recall", a)
       => /\ ship'[a].memory = ship[a].memory
          /\ IF Len(ship[a].memory) < ship[a].batch_size
               THEN ret'.exc = "ValueError" /\ ret'.batch = <<>>
               ELSE /\ ret'.exc = ""
                    /\ Len(ret'.batch) = ship[a].batch_size
                    /\ Len(ret'.sampled) = ship[a].batch_size
                    /\ \A i \in 1 .. Len(ret'.sampled) :
                         /\ ret'.sampled[i] \in 1 .. Len(ship[a].memory)
                         /\ ret'.batch[i] = ship[a].memory[ret'.sampled[i]]
                    /\ \A i, j \in 1 .. Len(ret'.sampled) :
                         i # j => ret'.sampled[i] # ret'.sampled[j]]_vars

(* recall() returned a batch of two transitions. *)
C5_Witness ==
  \E a \in Agents :
    /\ Returned("recall", a) /\ ret.exc = ""
    /\ Len(ret.batch) = 2 /\ ship[a].batch_size = 2

(* recall() failed on a buffer that is not empty. *)
C5_WitnessFailure ==
  \E a \in Agents :
    /\ Returned("recall", a) /\ ret.exc = "ValueError"
    /\ Len(ship[a].memory) = 1

----------------------------------------------------------------------------
(* C6 as stated: whenever learn() passes the burn-in and cadence checks    *)
(* the buffer holds at least batch_size transitions, so learn() never      *)
(* raises an insufficient-data error.                                      *)
C6_Original ==
  \A a \in Agents : ~(Returned("learn", a) /\ ret.exc = "ValueError")

(* C6 amended: the burn-in gate counts act() calls, not buffered           *)
(* transitions.  A learn() call stopped by the burn-in or cadence check    *)
(* returns (None, None) and raises nothing, whatever the buffer holds; a   *)
(* learn() call that passes both checks raises ValueError (insufficient    *)
(* data) exactly when the buffer holds fewer than batch_size transitions.  *)
C6_LearnRaisesIffBufferShort ==
  [][\A a \in Agents :
       Called("learn", a)
       => LET gated == \/ ship[a].curr_step < ship[a].burn_in
                       \/ ship[a].curr_step % ship[a].learn_every # 0
              short == Len(ship[a].memory) < ship[a].batch_size
          IN  /\ ret'.exc \in {"", "ValueError"}
              /\ ret'.exc = "ValueError" <=> (~gated /\ short)
              /\ gated => ret'.Q = None /\ ret'.loss = None
              /\ (~gated /\ ~short) => ret'.Q # None /\ ret'.loss # None]_vars

(* learn() raised past burn-in with a buffer that is not empty. *)
C6_Witness ==
  \E a \in Agents :
    /\ Returned("learn", a) /\ ret.exc = "ValueError"
    /\ ship[a].curr_step >= 1 /\ ship[a].curr_step >= ship[a].burn_in
    /\ Len(ship[a].memory) = 1

----------------------------------------------------------------------------
(* C9 as stated: the target parameters change only through the hard sync   *)
(* in learn().                                                             *)
C9_Original ==
  [][\A a \in Agents :
       ship'[a].net.target # ship[a].net.target
       => /\ Called("learn", a)
          /\ ship[a].curr_step % ship[a].sync_every = 0
          /\ ship'[a].net.target = ship[a].net.online]_vars

(* C9 amended: the target parameters change only through a bulk parameter  *)
(* copy, which is the hard sync in learn() or the load_state_dict of       *)
(* load(); the optimizer step never changes them, and a learn() call off   *)
(* the sync cadence leaves them as they are while it moves the online      *)
(* parameters.                                                             *)
C9_TargetChangesOnlyByCopy ==
  [][\A a \in Agents :
       /\ ship'[a].net.target # ship[a].net.target
          => \/ /\ Called("learn", a)
                /\ ship[a].curr_step % ship[a].sync_every = 0
                /\ ship'[a].net.target = ship[a].net.online
             \/ /\ Called("load", a) /\ ret'.exc = ""
                /\ ship'[a].net.target = disk[ret'.path[1]][1].net.target
       /\ ( /\ Called("learn", a)
            /\ ship[a].curr_step % ship[a].sync_every # 0 )
          => ship'[a].net.target = ship[a].net.target]_vars

(* A learn() call off the sync cadence whose optimizer step moved the      *)
(* online parameters.                                                      *)
C9_Witness ==
  \E a \in Agents :
    /\ Returned("learn", a) /\ ret.stepped
    /\ ship[a].curr_step % ship[a].sync_every # 0
    /\ ship[a].net.online # ship[a].net.target

----------------------------------------------------------------------------
(* C10: for every transition of the batch of a learn() call, td_target is  *)
(* the reward when done is true, whatever gamma and the networks' outputs, *)
(* and reward + gamma * Q_target(next_state, argmax Q_online(next_state))  *)
(* when done is false.  The networks are the ones td_target reads: online  *)
(* as the call found it, target after the call's sync check.               *)
C10_TdTarget ==
  [][\A a \in Agents :
       (Called("learn", a) /\ ret'.stepped)
       => LET online == ship[a].net.online
              target == IF ship[a].curr_step % ship[a].sync_every = 0
                          THEN ship[a].net.online ELSE ship[a].net.target
          IN  /\ Len(ret'.td_tgt) = ship[a].batch_size
              /\ \A i \in 1 .. Len(ret'.batch) :
                   LET t == ret'.batch[i]
                       q_online == Forward(online, t.next_state)
                       q_target == Forward(target, t.next_state)
                   IN  ret'.td_tgt[i] =
                         IF t.done THEN t.reward
                         ELSE t.reward + ship[a].gamma * q_target[ArgMax(q_online) + 1]]_vars

(* A learn() call whose batch held a terminal transition, with a discount  *)
(* factor and a target value that are not zero.                            *)
C10_Witness ==
  \E a \in Agents :
    /\ Returned("learn", a) /\ ret.stepped
    /\ ship[a].gamma # 0
    /\ \E i \in 1 .. Len(ret.batch) :
         /\ ret.batch[i].done
         /\ ret.td_tgt[i] = ret.batch[i].reward
         /\ Forward(ship[a].net.target, ret.batch[i].next_state)
              [ArgMax(Forward(ship[a].net.online, ret.batch[i].next_state)) + 1] # 0

(* A learn() call whose batch held a transition that is not terminal and   *)
(* whose best action differs between the online and the target network.    *)
C10_WitnessBootstrap ==
  \E a \in Agents :
    /\ Returned("learn", a) /\ ret.stepped
    /\ ship[a].gamma # 0
    /\ \E i \in 1 .. Len(ret.batch) :
         /\ ~ret.batch[i].done
         /\ ret.td_tgt[i] # ret.batch[i].reward

----------------------------------------------------------------------------
(* C7: after an agent loads a checkpoint, its curr_step, every             *)
(* hyperparameter (learning rate included) and its replay buffer equal     *)
(* the checkpoint's values, whatever the agent was constructed with; a     *)
(* save() by the agent right after the load would write the same fields.   *)
C7_RoundTrip ==
  \A a \in Agents :
    (Returned("load", a) /\ ret.exc = "")
    => LET c == disk[ret.path[1]][1]
           s == ship[a]
       IN  /\ s.curr_step = c.curr_step
           /\ s.exploration_rate = c.exploration_rate
           /\ s.exploration_rate_decay = c.exploration_rate_decay
           /\ s.exploration_rate_min = c.exploration_rate_min
           /\ s.save_every = c.save_every
           /\ s.batch_size = c.batch_size
           /\ s.gamma = c.gamma
           /\ s.lr = c.lr
           /\ s.burn_in = c.burn_in
           /\ s.learn_every = c.learn_every
           /\ s.sync_every = c.sync_every
           /\ s.memory = c.memory
           /\ checkpoint(s) = c

----------------------------------------------------------------------------
(* C8: load() rebuilds the optimizer with the learning rate stored in the  *)
(* checkpoint, over the parameters the load restored; no other call        *)
(* changes the optimizer's learning rate, and the optimizer step of every  *)
(* learn() call moves the online parameters by that rate.                  *)
C8_OptimizerUsesCheckpointLr ==
  [][\A a \in Agents :
       /\ (Called("load", a) /\ ret'.exc = "")
          => /\ ship'[a].optimizer.lr = disk[ret'.path[1]][1].lr
             /\ ship'[a].net.online = disk[ret'.path[1]][1].net.online
       /\ ~(Called("load", a) /\ ret'.exc = "")
          => ship'[a].optimizer.lr = ship[a].optimizer.lr
       /\ (Called("learn", a) /\ ret'.stepped)
          => ship'[a].net.online =
               Clamp(ship[a].net.online
                       - ship[a].optimizer.lr * ship'[a].optimizer.exp_avg,
                     -MaxParam, MaxParam)]_vars

(* A learn() call that took an optimizer step after a load gave the        *)
(* optimizer a learning rate the agent was not constructed with.           *)
C8_Witness ==
  \E a \in Agents :
    /\ Returned("learn", a) /\ ret.stepped
    /\ ship[a].optimizer.lr # ship[a].lr
    /\ ship[a].optimizer.exp_avg # 0

----------------------------------------------------------------------------
(* C11 as stated: every act() call increments curr_step by exactly 1 in    *)
(* both branches, and curr_step never decreases under any sequence of      *)
(* act(), cache(), learn(), save() and load() calls.                       *)
C11_Original ==
  [][\A a \in Agents :
       /\ Called("act", a) => ship'[a].curr_step = ship[a].curr_step + 1
       /\ ship'[a].curr_step >= ship[a].curr_step]_vars

(* C11 amended: curr_step is 0 at construction; every act() call          *)
(* increments it by exactly 1 in both branches; cache(), recall(), learn() *)
(* and save() leave it as it is; a load() sets it to the checkpoint's      *)
(* curr_step, which may be lower.                                          *)
C11_StepCounter ==
  /\ \A a \in Agents : ship[a].curr_step = 0
  /\ [][\A a \in Agents :
       /\ Called("act", a)
          => /\ ret'.branch \in {"explore", "exploit"}
             /\ ship'[a].curr_step = ship[a].curr_step + 1
       /\ (Called("load", a) /\ ret'.exc = "")
          => ship'[a].curr_step = disk[ret'.path[1]][1].curr_step
       /\ ~Called("act", a) /\ ~(Called("load", a) /\ ret'.exc = "")
          => ship'[a].curr_step = ship[a].curr_step]_vars

(* A load() brought the counter back to 0 after the agent had reached     *)
(* step 1 and saved there.                                                 *)
C11_Witness ==
  \E a \in Agents :
    /\ Returned("load", a) /\ ret.exc = ""
    /\ ship[a].curr_step = 0
    /\ disk[<<ship[a].save_dir, 1>>] # None

(* C12 as stated: no save() call of an agent returns a path that an        *)
(* earlier save() call of that agent already returned.  Every file in the  *)
(* agent's directory was written by one of its own save() calls.           *)
C12_Original ==
  \A a \in Agents : ~(Returned("save", a) /\ ret.overwrote)

(* C12 amended: save() writes the checkpoint to the file named after the   *)
(* agent's save_dir and its current curr_step, changes no other file and   *)
(* returns that path; a file it replaces was saved at the same curr_step,  *)
(* so two saves return the same path exactly when curr_step is the same.   *)
C12_SaveNamedByStep ==
  [][\A a \in Agents :
       Called("save", a)
         => LET p == <<ship[a].save_dir, ship[a].curr_step>> IN
              /\ ret'.path = Some(p)
              /\ disk'[p] # None
              /\ disk'[p][1].curr_step = ship[a].curr_step
              /\ \A q \in Paths \ {p} : disk'[q] = disk[q]
              /\ ret'.overwrote = (disk[p] # None)
              /\ disk[p] # None => disk[p][1].curr_step = ship[a].curr_step]_vars

(* A save() at step 1 replaced the file that an earlier save() at step 1   *)
(* had written; nothing was ever saved at step 0.                          *)
C12_Witness ==
  \E a \in Agents :
    /\ Returned("save", a) /\ ret.overwrote
    /\ ship[a].curr_step = 1
    /\ disk[<<ship[a].save_dir, 0>>] = None

(* C13: constructing an agent whose state_dim has height # 84 or width #   *)
(* 84 raises ValueError out of the constructor and binds no agent: it has  *)
(* no fields and no method is ever called on it.  A constructor call with  *)
(* an 84 x 84 shape raises nothing and stores the shape.  No later call    *)
(* checks the shape again: act() never raises, and learn() raises only     *)
(* when the buffer holds fewer than batch_size transitions.                *)
C13_ShapeCheckedAtConstruction ==
  /\ \A a \in Agents :
       IF ctor[a].state_dim[2] # 84 \/ ctor[a].state_dim[3] # 84
       THEN /\ ctor[a].exc = "ValueError"
            /\ a \notin DOMAIN ship
            /\ a \notin live
            /\ ret.agent # a
       ELSE /\ ctor[a].exc = ""
            /\ a \in DOMAIN ship
            /\ ship[a].state_dim = ctor[a].state_dim
  /\ ret.op = "act" => ret.exc = ""
  /\ (ret.op = "learn" /\ ret.exc # "")
       => /\ ret.exc = "ValueError"
          /\ Len(ship[ret.agent].memory) < ship[ret.agent].batch_size

(* The constructor refused a shape whose height is right and whose width   *)
(* is wrong, while the other agent acted twice, cached and learnt.         *)
C13_Witness ==
  /\ ctor["A"].state_dim = <<4, 84, 83>>
  /\ ctor["A"].exc = "ValueError"
  /\ Returned("learn", "B") /\ ret.stepped

(* One learn() call on agent state s whose random.sample draws idx: the    *)
(* agent state it leaves and the loss it returns.                          *)
LearnWith(s, idx) ==
  LET s1 == IF s.curr_step % s.sync_every = 0
              THEN [s EXCEPT !.net.target = s.net.online] ELSE s
  IN  IF s1.curr_step < s1.burn_in \/ s1.curr_step % s1.learn_every # 0
      THEN [ship |-> s1, loss |-> None]
      ELSE LET o == learn_on(s1, idx)
           IN  [ship |-> o.ship, loss |-> o.ship.loss]

(* The draws random.sample can make from the buffer of s. *)
Draws(s) ==
  { idx \in [1 .. s.batch_size -> 1 .. Len(s.memory)] :
      \A i, j \in 1 .. s.batch_size : i # j => idx[i] # idx[j] }

(* C14: an agent saves and an agent loads that checkpoint at once; from    *)
(* then on the loaded agent and the agent as it was before the load (the   *)
(* uninterrupted run) make the same two learn() calls with the same draws  *)
(* and get the same losses.                                                *)
C14_DeterminismAcrossCheckpoint ==
  [][\A a \in Agents :
       ( /\ ret.op = "save"
         /\ Called("load", a) /\ ret'.exc = "" /\ ret'.path = ret.path
         /\ Len(ship[ret.agent].memory) >= ship[ret.agent].batch_size )
       => LET run == ship[ret.agent]
              resumed == ship'[a]
          IN  \A d1 \in Draws(run), d2 \in Draws(run) :
                LET r1 == LearnWith(run, d1)
                    l1 == LearnWith(resumed, d1)
                    r2 == LearnWith(r1.ship, d2)
                    l2 == LearnWith(l1.ship, d2)
                IN  r1.loss = l1.loss /\ r2.loss = l2.loss]_vars

----------------------------------------------------------------------------
(* C15: a learn() call made with curr_step >= burn_in, curr_step on the    *)
(* learn cadence and at least batch_size transitions in the buffer raises  *)
(* nothing, applies exactly one optimizer step to the online parameters    *)
(* (one move against the updated moment estimate by the learning rate)     *)
(* and returns the batch-mean TD estimate and the loss, neither None.      *)
C15_LearnStepsOnce ==
  [][\A a \in Agents :
       ( /\ Called("learn", a)
         /\ ship[a].curr_step >= ship[a].burn_in
         /\ ship[a].curr_step % ship[a].learn_every = 0
         /\ Len(ship[a].memory) >= ship[a].batch_size )
       => LET b == ret'.batch
              grad == SumSeq([i \in 1 .. Len(b) |->
                        Clamp(ret'.td_est[i] - ret'.td_tgt[i], -1, 1)
                          * (IF b[i].action = b[i].state THEN 1 ELSE -1)])
              m == Sgn(ship[a].optimizer.exp_avg + grad)
          IN  /\ ret'.exc = "" /\ ret'.stepped
              /\ Len(b) = ship[a].batch_size
              /\ ret'.Q # None /\ ret'.loss # None
              /\ ret'.Q = Some(SumSeq(ret'.td_est) \div Len(b))
              /\ ship'[a].Q = ret'.Q /\ ship'[a].loss = ret'.loss
              /\ ship'[a].optimizer.exp_avg = m
              /\ ship'[a].optimizer.lr = ship[a].optimizer.lr
              /\ ship'[a].net.online
                   = Clamp(ship[a].net.online - ship[a].optimizer.lr * m,
                           -MaxParam, MaxParam)]_vars

(* The scenario of the claim: curr_step = 0, burn_in = 0, learn_every = 1, *)
(* batch_size = 2, two cache() calls, then a learn() call that returned a  *)
(* mean Q and a loss and moved the online parameters.                      *)
C15_Witness ==
  \E a \in Agents :
    /\ Returned("learn", a) /\ ret.stepped
    /\ ret.Q # None /\ ret.loss # None
    /\ ship[a].curr_step = 0 /\ ship[a].burn_in = 0
    /\ ship[a].learn_every = 1 /\ ship[a].batch_size = 2
    /\ Len(pushed[a]) = 2 /\ calls = 3
    /\ ship[a].optimizer.exp_avg # 0

----------------------------------------------------------------------------
(* C16: the sync check of learn() runs before the burn-in and cadence      *)
(* checks.  A learn() call made while curr_step is a multiple of           *)
(* sync_every copies the online parameters into the target parameters,     *)
(* also when it then returns (None, None) because curr_step < burn_in or   *)
(* curr_step is off the learn cadence; a learn() call made at any other    *)
(* step leaves the target parameters as they are.                          *)
C16_SyncBeforeGates ==
  [][\A a \in Agents :
       Called("learn", a)
       => /\ ship[a].curr_step % ship[a].sync_every = 0
               => /\ ret'.synced
                  /\ ship'[a].net.target = ship[a].net.online
          /\ ( /\ ship[a].curr_step % ship[a].sync_every = 0
               /\ \/ ship[a].curr_step < ship[a].burn_in
                  \/ ship[a].curr_step % ship[a].learn_every # 0 )
               => /\ ret'.exc = "" /\ ret'.Q = None /\ ret'.loss = None
                  /\ ship'[a].net.target = ship'[a].net.online
          /\ ship[a].curr_step % ship[a].sync_every # 0
               => /\ ~ret'.synced
                  /\ ship'[a].net.target = ship[a].net.target]_vars

(* cache(), learn() at step 0, act(), learn() at step 1: the second        *)
(* learn() is off the cadence and returned (None, None), and it copied     *)
(* into the target the parameter the first learn() had moved.              *)
C16_Witness ==
  \E a \in Agents :
    /\ Returned("learn", a) /\ ret.synced /\ ret.Q = None /\ ret.exc = ""
    /\ calls = 4
    /\ ship[a].curr_step = 1 /\ ship[a].sync_every = 1
    /\ ship[a].learn_every = 2 /\ ship[a].burn_in = 0
    /\ ship[a].net.target = ship[a].net.online
    /\ ship[a].net.online # 0

(* A learn() call inside the burn-in period that ran the sync. *)
C16_WitnessBurnIn ==
  \E a \in Agents :
    /\ Returned("learn", a) /\ ret.synced /\ ret.Q = None
    /\ ship[a].curr_step < ship[a].burn_in

----------------------------------------------------------------------------
(* C17: frame conditions.  learn() leaves curr_step, exploration_rate,     *)
(* every hyperparameter and the replay buffer as they are, in each of its  *)
(* branches; cache() changes only the replay buffer; act() changes only    *)
(* exploration_rate and curr_step, never the buffer or either parameter    *)
(* set; save() changes no agent state.  None of the four touches another   *)
(* agent, and only save() touches the files.                               *)
C17_FrameConditions ==
  [][\A a \in Agents :
       /\ Called("learn", a)
            => /\ ship'[a].curr_step = ship[a].curr_step
               /\ ship'[a].exploration_rate = ship[a].exploration_rate
               /\ ship'[a].exploration_rate_decay = ship[a].exploration_rate_decay
               /\ ship'[a].exploration_rate_min = ship[a].exploration_rate_min
               /\ ship'[a].save_every = ship[a].save_every
               /\ ship'[a].batch_size = ship[a].batch_size
               /\ ship'[a].gamma = ship[a].gamma
               /\ ship'[a].lr = ship[a].lr
               /\ ship'[a].optimizer.lr = ship[a].optimizer.lr
               /\ ship'[a].burn_in = ship[a].burn_in
               /\ ship'[a].learn_every = ship[a].learn_every
               /\ ship'[a].sync_every = ship[a].sync_every
               /\ ship'[a].state_dim = ship[a].state_dim
               /\ ship'[a].save_dir = ship[a].save_dir
               /\ ship'[a].memory = ship[a].memory
               /\ pushed' = pushed /\ disk' = disk
       /\ Called("cache", a)
            => /\ ship'[a] = [ship[a] EXCEPT !.memory = ship'[a].memory]
               /\ disk' = disk
       /\ Called("act", a)
            => /\ ship'[a] = [ship[a] EXCEPT
                                !.exploration_rate = ship'[a].exploration_rate,
                                !.curr_step = ship'[a].curr_step]
               /\ ship'[a].memory = ship[a].memory
               /\ ship'[a].net = ship[a].net
               /\ pushed' = pushed /\ disk' = disk
       /\ Called("save", a)
            => ship'[a] = ship[a] /\ pushed' = pushed
       /\ ret'.op \in {"learn", "cache", "act", "save"} /\ ret'.agent = a
            => \A b \in DOMAIN ship \ {a} : ship'[b] = ship[b]]_vars

(* A learn() call that applied a gradient step, at step 1 after an act()   *)
(* that decayed the exploration rate, on a full buffer.                    *)
C17_Witness ==
  \E a \in Agents :
    /\ Returned("learn", a) /\ ret.stepped
    /\ ship[a].curr_step = 1
    /\ ship[a].exploration_rate < 2
    /\ Len(ship[a].memory) = maxlen
    /\ ship[a].optimizer.exp_avg # 0

====
